---- MODULE Spec2Model ----
(***************************************************************************)
(* MediChronicle: the inference pipeline (geminiService), the IndexedDB    *)
(* store (storageService) and the App component that drives them.          *)
(*                                                                         *)
(* Three specifications share the variables below:                         *)
(*   SpecRetry   - one execution of withRetry;                             *)
(*   SpecAnalyze - one run of analyzeDocumentsMetadata, its inference call *)
(*                 going through withRetry;                                *)
(*   Spec        - the App: its handlers, split at their awaits, over the  *)
(*                 store's transactions.                                   *)
(***************************************************************************)
EXTENDS Integers, Sequences, FiniteSets, TLC

VARIABLES
    \* ---- withRetry (one execution)
    rPc,        \* "idle" | "loop" | "caught" | "sleeping" | "returned" | "threw"
    rMax,       \* maxRetries
    attempt,    \* let attempt
    rCalls,     \* number of invocations of fn so far
    rDelays,    \* the waitTime of every sleep so far, in order
    lastErr,    \* err of the catch clause
    rAllRate,   \* history: every failure of fn so far was rate-limit class
    rOut        \* what the execution returned or threw

retryVars == <<rPc, rMax, attempt, rCalls, rDelays, lastErr, rAllRate, rOut>>

VARIABLES
    \* ---- analyzeDocumentsMetadata (one run)
    aPc,        \* "idle" | "loop" | "calling" | "done"
    files,      \* the files argument
    i,          \* the loop index
    allResults, \* const allResults
    origin,     \* history: for each record of allResults, the index of the file
                \* whose batch pushed it
    progress,   \* the onProgress calls so far, each <<processed, total>>
    aLog        \* history: the sleeps and batch ends so far, in order

analysisVars == <<aPc, files, i, allResults, origin, progress, aLog>>

VARIABLES
    \* ---- the IndexedDB store and localStorage
    sProfiles,  \* object store 'profiles', key id
    sDocs,      \* object store 'documents', key [profileId, id]
    sReports,   \* object store 'reports', key profileId
    activeId,   \* localStorage item 'medichronicle_active_id' ("" when absent)
    \* ---- the App component's state
    step, profile, allProfiles, documents, report, error, isInitializing,
    \* ---- the App's handlers that are in flight, with what they captured
    up,         \* handleFilesSelected, awaiting analyzeDocumentsMetadata
    rp,         \* handleGenerateReport, awaiting generateMedicalReport
    del         \* handleDeletePatient, between deleteProfileCompletely's transactions

storeVars == <<sProfiles, sDocs, sReports, activeId>>

uiVars == <<step, profile, allProfiles, documents, report, error, isInitializing>>

procVars == <<up, rp, del>>

appVars == <<storeVars, uiVars, procVars>>

\* ---- one call of a function taken on its own
VARIABLES
    input,      \* the argument of the call
    output,     \* what the call settled with
    called,     \* whether the call has settled
    lastTx      \* the last call of the storage service and the records its puts replaced

callVars == <<input, output, called, lastTx>>

vars == <<retryVars, analysisVars, appVars, callVars>>

\* --------------------------------------------------------------------------
\* Bounds
\* --------------------------------------------------------------------------
MaxBudget == 6

MaxFiles == 2

MaxDocs == 2

MaxRecords == 3

\* --------------------------------------------------------------------------
\* withRetry
\* --------------------------------------------------------------------------

\* The errors fn may reject with: message text, status and code fields.
\* status/code 0 stands for an absent field, message "" for an absent message.
Errors ==
    { [message |-> "",                                   status |-> 429, code |-> 0],
      [message |-> "got status: 429 Too Many Requests",  status |-> 0,   code |-> 0],
      [message |-> "RESOURCE_EXHAUSTED: quota",          status |-> 0,   code |-> 0],
      [message |-> "",                                   status |-> 0,   code |-> 429],
      [message |-> "deadline exceeded after 14290 ms",   status |-> 500, code |-> 0],
      [message |-> "API key not valid",                  status |-> 400, code |-> 0],
      [message |-> "",                                   status |-> 500, code |-> 0] }

NoError == [message |-> "", status |-> 0, code |-> 0]

\* The errors generateContent rejects with in a run of the analysis or of the report synthesis: one of each class.
CallErrors ==
    { [message |-> "",                                 status |-> 429, code |-> 0],
      [message |-> "deadline exceeded after 14290 ms", status |-> 500, code |-> 0],
      [message |-> "API key not valid",                status |-> 400, code |-> 0] }

\* String.prototype.includes on the message texts above.
Includes429(msg) ==
    msg \in {"got status: 429 Too Many Requests", "deadline exceeded after 14290 ms"}

IncludesExhausted(msg) == msg = "RESOURCE_EXHAUSTED: quota"

\* errorMsg = err?.message || JSON.stringify(err): the serialised object shows
\* its status and code fields.
ErrorMsgIncludes429(err) ==
    IF err.message # "" THEN Includes429(err.message)
    ELSE err.status = 429 \/ err.code = 429

ErrorMsgIncludesExhausted(err) ==
    IF err.message # "" THEN IncludesExhausted(err.message) ELSE FALSE

isRateLimit(err) ==
    \/ ErrorMsgIncludes429(err)
    \/ err.status = 429
    \/ err.code = 429
    \/ ErrorMsgIncludesExhausted(err)

BASE_DELAY == 2500

Pow2(n) == IF n = 0 THEN 1 ELSE 2 ^ n

waitTime_linear(a) == a * BASE_DELAY

waitTime(a) == Pow2(a) * BASE_DELAY

BudgetError == [kind |-> "budget", value |-> "", err |-> NoError]

Returned(v) == [kind |-> "value", value |-> v, err |-> NoError]

Thrown(e) == [kind |-> "error", value |-> "", err |-> e]

NoOutcome == [kind |-> "none", value |-> "", err |-> NoError]

RetryIdle ==
    /\ rPc = "idle" /\ rMax = 0 /\ attempt = 0 /\ rCalls = 0
    /\ rDelays = <<>> /\ lastErr = NoError /\ rAllRate = TRUE /\ rOut = NoOutcome

\* withRetry(fn, maxRetries): let attempt = 0
RetryStart(m) ==
    /\ rPc = "idle"
    /\ rPc' = "loop"
    /\ rMax' = m
    /\ attempt' = 0
    /\ rCalls' = 0
    /\ rDelays' = <<>>
    /\ lastErr' = NoError
    /\ rAllRate' = TRUE
    /\ rOut' = NoOutcome

\* while (attempt < maxRetries) is false: the throw after the loop
RetryLoopExit ==
    /\ rPc = "loop"
    /\ ~(attempt < rMax)
    /\ rPc' = "threw"
    /\ rOut' = BudgetError
    /\ UNCHANGED <<rMax, attempt, rCalls, rDelays, lastErr, rAllRate>>

\* return await fn(), fn resolving with v
RetryInvokeOk(v) ==
    /\ rPc = "loop"
    /\ attempt < rMax
    /\ rCalls' = rCalls + 1
    /\ rPc' = "returned"
    /\ rOut' = Returned(v)
    /\ UNCHANGED <<rMax, attempt, rDelays, lastErr, rAllRate>>

\* The rate-limit class of the specification: HTTP status 429 (in the status or
\* code field, or reported as the status in the message) or the
\* resource-exhaustion marker.
RateLimitClass(e) ==
    \/ e.status = 429
    \/ e.code = 429
    \/ e.message \in {"got status: 429 Too Many Requests", "RESOURCE_EXHAUSTED: quota"}

\* await fn() rejecting with e: control enters the catch clause
RetryInvokeFail(e) ==
    /\ rPc = "loop"
    /\ attempt < rMax
    /\ rCalls' = rCalls + 1
    /\ rPc' = "caught"
    /\ lastErr' = e
    /\ rAllRate' = (rAllRate /\ RateLimitClass(e))
    /\ UNCHANGED <<rMax, attempt, rDelays, rOut>>

ShouldBackoff_always(err, a, m) == isRateLimit(err)

\* isRateLimit && attempt < maxRetries - 1
ShouldBackoff(err, a, m) == isRateLimit(err) /\ a < m - 1

\* attempt++; waitTime = 2^attempt * 2500; await sleep(waitTime)
RetryBackoff ==
    /\ rPc = "caught"
    /\ ShouldBackoff(lastErr, attempt, rMax)
    /\ attempt' = attempt + 1
    /\ rDelays' = Append(rDelays, waitTime(attempt + 1))
    /\ rPc' = "sleeping"
    /\ lastErr' = NoError          \* err is scoped to the catch clause
    /\ UNCHANGED <<rMax, rCalls, rAllRate, rOut>>

\* the sleep's timer fires: continue
RetryWake ==
    /\ rPc = "sleeping"
    /\ rPc' = "loop"
    /\ UNCHANGED <<rMax, attempt, rCalls, rDelays, lastErr, rAllRate, rOut>>

RethrowOutcome(err) == Thrown(err)

\* throw err
RetryRethrow ==
    /\ rPc = "caught"
    /\ ~ShouldBackoff(lastErr, attempt, rMax)
    /\ rPc' = "threw"
    /\ rOut' = RethrowOutcome(lastErr)
    /\ UNCHANGED <<rMax, attempt, rCalls, rDelays, lastErr, rAllRate>>

\* --------------------------------------------------------------------------
\* fileToGenerativePart
\* --------------------------------------------------------------------------

\* A file: its name, its declared MIME type, whether the FileReader reads it
\* and whether the step after the read (image decode and canvas, or mammoth's
\* text extraction) succeeds.
File(n, t, r, d) == [name |-> n, type |-> t, readOk |-> r, decodeOk |-> d]

FileTypes == {"application/pdf", "application/msword", "image/png"}

IsWord(t) == t = "application/msword"      \* type.includes('word' | 'msword')

InlinePart(mime, n) == [kind |-> "inlineData", mimeType |-> mime, label |-> "", name |-> n]

TextPart(l, n) == [kind |-> "text", mimeType |-> "", label |-> l, name |-> n]

RejectedPart(n) == [kind |-> "rejected", mimeType |-> "", label |-> "", name |-> n]

MAX_WIDTH == 1200

MAX_HEIGHT == 1600

\* The canvas size compressImage draws the decoded image to. The scaled
\* dimension is a double; assigning it to canvas.width or canvas.height
\* truncates it to an integer (the rounding of the double product itself is
\* not modelled: the quotient is taken exactly).
CanvasSize(img) ==
    IF img.width > img.height THEN
        IF img.width > MAX_WIDTH
        THEN [width |-> MAX_WIDTH, height |-> (img.height * MAX_WIDTH) \div img.width]
        ELSE [width |-> img.width, height |-> img.height]
    ELSE
        IF img.height > MAX_HEIGHT
        THEN [width |-> (img.width * MAX_HEIGHT) \div img.height, height |-> MAX_HEIGHT]
        ELSE [width |-> img.width, height |-> img.height]

\* img.onload in compressImage: the canvas is sized.
SizeCanvas ==
    /\ ~called
    /\ called' = TRUE
    /\ output' = CanvasSize(input)
    /\ UNCHANGED <<input, lastTx, retryVars, analysisVars, appVars>>

\* compressImage resolves with the re-encoded base64 data, or rejects.
compressImageOk(file) == file.readOk /\ file.decodeOk

fileToGenerativePart_uncaught(file) ==
    IF file.type = "application/pdf" THEN
        IF file.readOk THEN InlinePart(file.type, file.name)
        ELSE RejectedPart(file.name)
    ELSE IF IsWord(file.type) THEN
        IF file.readOk /\ file.decodeOk THEN TextPart("Document Content", file.name)
        ELSE RejectedPart(file.name)
    ELSE
        IF compressImageOk(file) THEN InlinePart("image/jpeg", file.name)
        ELSE RejectedPart(file.name)

\* The promise fileToGenerativePart returns. The PDF and word branches return
\* their inner promise without awaiting it, so its rejection is not caught by
\* the try block; the image branch awaits compressImage inside the try block.
fileToGenerativePart(file) ==
    IF file.type = "application/pdf" THEN
        IF file.readOk THEN InlinePart(file.type, file.name)
        ELSE RejectedPart(file.name)
    ELSE IF IsWord(file.type) THEN
        IF file.readOk /\ file.decodeOk THEN TextPart("Document Content", file.name)
        ELSE RejectedPart(file.name)
    ELSE
        IF compressImageOk(file) THEN InlinePart("image/jpeg", file.name)
        ELSE TextPart("Error processing file", file.name)

\* fileToGenerativePart(file) settles.
Normalize ==
    /\ ~called
    /\ called' = TRUE
    /\ output' = fileToGenerativePart(input)
    /\ UNCHANGED <<input, lastTx, retryVars, analysisVars, appVars>>

\* --------------------------------------------------------------------------
\* analyzeDocumentsMetadata
\* --------------------------------------------------------------------------
BATCH_SIZE == 1

EXTRACT_BUDGET == 6

INTER_BATCH_MS == 4500

NULL == "null"

DocIds == {"d1", "d2"}

\* One element of the parsed response array. "" is an absent (or empty) field,
\* isDuplicate is "true", "false" or "absent"; nul marks a null element.
Item(d, t, s, dup) == [date |-> d, type |-> t, summary |-> s, isDuplicate |-> dup, nul |-> FALSE]

ItemFull == Item("2023-01-05", "LAB", "CBC normal", "false")

ItemDupImaging == Item("2022-11-01", "IMAGING", "Chest X-ray", "true")

ItemAbsent == Item("", "", "", "absent")

ItemNull == [date |-> "", type |-> "", summary |-> "", isDuplicate |-> "absent", nul |-> TRUE]

\* What generateContent may resolve with: response.text, by name.
Responses ==
    {"no text", "not JSON", "JSON object", "[]", "[full]", "[absent]",
     "[full, dup imaging]", "[null]", "[full, null]"}

\* response.text || "[]"
TextOrEmptyArray(resp) == IF resp = "no text" THEN "[]" ELSE resp

\* JSON.parse: whether it throws, whether the value is an array, its elements.
JSONParse(text) ==
    CASE text = "not JSON"    -> [throws |-> TRUE,  isArray |-> FALSE, items |-> <<>>]
      [] text = "JSON object" -> [throws |-> FALSE, isArray |-> FALSE, items |-> <<>>]
      [] text = "[]"          -> [throws |-> FALSE, isArray |-> TRUE,  items |-> <<>>]
      [] text = "[full]"      -> [throws |-> FALSE, isArray |-> TRUE,  items |-> <<ItemFull>>]
      [] text = "[absent]"    -> [throws |-> FALSE, isArray |-> TRUE,  items |-> <<ItemAbsent>>]
      [] text = "[full, dup imaging]"
                              -> [throws |-> FALSE, isArray |-> TRUE,
                                  items |-> <<ItemFull, ItemDupImaging>>]
      [] text = "[null]"      -> [throws |-> FALSE, isArray |-> TRUE,  items |-> <<ItemNull>>]
      [] text = "[full, null]"
                              -> [throws |-> FALSE, isArray |-> TRUE,
                                  items |-> <<ItemFull, ItemNull>>]

RecordOf_raw(item, id) ==
    [id          |-> id,
     date        |-> item.date,
     type        |-> item.type,
     summary     |-> item.summary,
     isDuplicate |-> item.isDuplicate = "true"]

\* The record pushed for one element of batchData.
RecordOf(item, id) ==
    [id          |-> id,
     date        |-> IF item.date = "" THEN NULL ELSE item.date,
     type        |-> IF item.type = "" THEN "OTHER" ELSE item.type,
     summary     |-> IF item.summary = "" THEN "Record processed" ELSE item.summary,
     isDuplicate |-> item.isDuplicate = "true"]

PLACEHOLDER_SUMMARY ==
    "Record could not be analyzed due to persistent API rate limits. Try smaller batches."

Placeholder_note(id) ==
    [id |-> id, date |-> NULL, type |-> "NOTE",
     summary |-> PLACEHOLDER_SUMMARY, isDuplicate |-> FALSE]

\* The record pushed by the catch clause of a batch.
Placeholder(id) ==
    [id |-> id, date |-> NULL, type |-> "OTHER",
     summary |-> PLACEHOLDER_SUMMARY, isDuplicate |-> FALSE]

\* The number of leading elements batchData.forEach visits before reading a
\* field of a null element throws.
RECURSIVE LeadingNonNull(_)
LeadingNonNull(items) ==
    IF items = <<>> \/ items[1].nul THEN 0 ELSE 1 + LeadingNonNull(Tail(items))

\* Whether the try block of a batch throws after the call resolved with resp.
ParseThrows(resp) ==
    LET parsed == JSONParse(TextOrEmptyArray(resp))
    IN  parsed.throws \/ ~parsed.isArray \/ LeadingNonNull(parsed.items) < Len(parsed.items)

\* The elements pushed by forEach before it ends or throws.
PushedItems(resp) ==
    LET parsed == JSONParse(TextOrEmptyArray(resp))
    IN  IF parsed.throws \/ ~parsed.isArray THEN <<>>
        ELSE SubSeq(parsed.items, 1, LeadingNonNull(parsed.items))

\* The records one batch appends to allResults, given what its try block met
\* (a rejected part, or the outcome of withRetry) and the ids Math.random drew.
BatchRecords(parts, out, ids) ==
    LET rejected == \E k \in 1..Len(parts) : parts[k].kind = "rejected"
        pushed   == IF rejected \/ out.kind # "value" THEN <<>> ELSE PushedItems(out.value)
        caught   == rejected \/ out.kind # "value" \/ ParseThrows(out.value)
        recs     == [k \in 1..Len(pushed) |-> RecordOf(pushed[k], ids[k])]
    IN  IF caught THEN Append(recs, Placeholder(ids[Len(pushed) + 1])) ELSE recs

\* How many records that is: one Math.random id is drawn for each.
BatchPushes(parts, out) == Len(BatchRecords(parts, out, [k \in 1..3 |-> "d1"]))

chunk == SubSeq(files, i + 1, IF i + BATCH_SIZE < Len(files) THEN i + BATCH_SIZE ELSE Len(files))

fileParts == [k \in 1..Len(chunk) |-> fileToGenerativePart(chunk[k])]

PartsRejected == \E k \in 1..Len(fileParts) : fileParts[k].kind = "rejected"

AnalysisIdle ==
    /\ aPc = "idle" /\ files = <<>> /\ i = 0 /\ allResults = <<>>
    /\ origin = <<>> /\ progress = <<>> /\ aLog = <<>>

\* analyzeDocumentsMetadata(fs, onProgress): const allResults = []; i = 0
AnalyzeStart(fs) ==
    /\ aPc = "idle"
    /\ aPc' = "loop"
    /\ files' = fs
    /\ i' = 0
    /\ allResults' = <<>>
    /\ origin' = <<>>
    /\ progress' = <<>>
    /\ aLog' = <<>>
    /\ UNCHANGED retryVars

Slept_never == <<>>

\* if (i > 0) await sleep(4500)
Slept == IF i > 0 THEN <<[ev |-> "sleep", ms |-> INTER_BATCH_MS, batch |-> i, how |-> ""]>> ELSE <<>>

\* How the try block of a batch ended, for the log.
HowEnded(parts, out) ==
    IF \E k \in 1..Len(parts) : parts[k].kind = "rejected" THEN "part rejected"
    ELSE IF out.kind = "value" THEN (IF ParseThrows(out.value) THEN "parse threw" ELSE "ok")
    ELSE IF rCalls = rMax /\ isRateLimit(out.err) THEN "retries exhausted"
    ELSE "call failed"

FinishBatch_quietOnFailure(out, log) ==
    \E ids \in [1..BatchPushes(fileParts, out) -> DocIds] :
        LET recs == BatchRecords(fileParts, out, ids)
        IN  /\ allResults' = allResults \o recs
            /\ origin' = origin \o [k \in 1..Len(recs) |-> i + 1]
            /\ progress' = IF HowEnded(fileParts, out) = "ok"
                           THEN Append(progress, <<i + 1, Len(files)>>)
                           ELSE progress
            /\ aLog' = log \o <<[ev |-> "end", ms |-> 0, batch |-> i,
                                  how |-> HowEnded(fileParts, out)]>>
            /\ i' = i + BATCH_SIZE
            /\ aPc' = "loop"
            /\ UNCHANGED files

\* The end of one iteration: the records are pushed, onProgress(i + 1, total)
\* is called, i += BATCH_SIZE.
FinishBatch(out, log) ==
    \E ids \in [1..BatchPushes(fileParts, out) -> DocIds] :
        LET recs == BatchRecords(fileParts, out, ids)
        IN  /\ allResults' = allResults \o recs
            /\ origin' = origin \o [k \in 1..Len(recs) |-> i + 1]
            /\ progress' = Append(progress, <<i + 1, Len(files)>>)
            /\ aLog' = log \o <<[ev |-> "end", ms |-> 0, batch |-> i,
                                  how |-> HowEnded(fileParts, out)]>>
            /\ i' = i + BATCH_SIZE
            /\ aPc' = "loop"
            /\ UNCHANGED files

\* An iteration whose Promise.all(chunk.map(fileToGenerativePart)) rejects:
\* the sleep, then the catch clause.
BatchPartsRejected ==
    /\ aPc = "loop"
    /\ i < Len(files)
    /\ PartsRejected
    /\ FinishBatch(NoOutcome, aLog \o Slept)
    /\ UNCHANGED retryVars

\* An iteration up to its call of withRetry: the sleep after the first batch,
\* the parts, then withRetry(fn) with the default budget.
BatchCall ==
    /\ aPc = "loop"
    /\ i < Len(files)
    /\ ~PartsRejected
    /\ aLog' = aLog \o Slept
    /\ aPc' = "calling"
    /\ RetryStart(EXTRACT_BUDGET)
    /\ UNCHANGED <<files, i, allResults, origin, progress>>

\* withRetry has returned or thrown: the rest of the iteration.
BatchEnd ==
    /\ aPc = "calling"
    /\ rPc \in {"returned", "threw"}
    /\ FinishBatch(rOut, aLog)
    /\ rPc' = "idle" /\ rMax' = 0 /\ attempt' = 0 /\ rCalls' = 0
    /\ rDelays' = <<>> /\ lastErr' = NoError /\ rAllRate' = TRUE /\ rOut' = NoOutcome

\* the loop condition i < files.length is false: return allResults
AnalyzeReturn ==
    /\ aPc = "loop"
    /\ ~(i < Len(files))
    /\ aPc' = "done"
    /\ UNCHANGED <<files, i, allResults, origin, progress, aLog>>
    /\ UNCHANGED retryVars

\* --------------------------------------------------------------------------
\* generateMedicalReport
\* --------------------------------------------------------------------------
REPORT_BUDGET == 3

ReportData(h, sm, pr) == [history |-> h, summary |-> sm, prognosis |-> pr]

\* report === null
NoReport == ReportData(NULL, NULL, NULL)

\* the object {}: every field absent
EmptyObject == ReportData("", "", "")

ReportA == ReportData("history A", "summary A", "prognosis A")

ReportB == ReportData("history B", "summary B", "prognosis B")

\* The date strings a stored record may carry: RecordOf keeps any non-empty
\* string the service returned, standardized or not.
DateStrings == {"2022-11-01", "2023-01-05", "Jan 2023"}

\* A ProcessedDocument, the fields generateMedicalReport reads. date is NULL
\* when absent.
Rec(d, t, dup) == [date |-> d, type |-> t, summary |-> "s", isDuplicate |-> dup]

\* The characters of a string.
Chars(str) ==
    CASE str = "2022-11-01" -> <<"2", "0", "2", "2", "-", "1", "1", "-", "0", "1">>
      [] str = "2023-01-05" -> <<"2", "0", "2", "3", "-", "0", "1", "-", "0", "5">>
      [] str = "Jan 2023"   -> <<"J", "a", "n", " ", "2", "0", "2", "3">>
      [] str = "9999"       -> <<"9", "9", "9", "9">>

\* The collation order of the characters used: white space, punctuation,
\* digits, letters.
Rank(c) ==
    CASE c = " " -> 0
      [] c = "-" -> 1
      [] c = "0" -> 10
      [] c = "1" -> 11
      [] c = "2" -> 12
      [] c = "3" -> 13
      [] c = "5" -> 15
      [] c = "9" -> 19
      [] c = "a" -> 30
      [] c = "J" -> 39
      [] c = "n" -> 43

\* Sequences of characters compared in collation order: -1, 0 or 1.
RECURSIVE CompareChars(_, _)
CompareChars(x, y) ==
    IF x = <<>> /\ y = <<>> THEN 0
    ELSE IF x = <<>> THEN -1
    ELSE IF y = <<>> THEN 1
    ELSE IF Rank(x[1]) < Rank(y[1]) THEN -1
    ELSE IF Rank(x[1]) > Rank(y[1]) THEN 1
    ELSE CompareChars(Tail(x), Tail(y))

\* a.localeCompare(b)
localeCompare(x, y) == CompareChars(Chars(x), Chars(y))

\* d.date || '9999'
DateOr9999(d) == IF d.date = NULL THEN "9999" ELSE d.date

Retained_unflagged(d) == ~d.isDuplicate

\* The filter: d => !d.isDuplicate || d.type === 'IMAGING'
Retained(d) == ~d.isDuplicate \/ d.type = "IMAGING"

\* documents.filter(...)
RECURSIVE Filtered(_)
Filtered(docs) ==
    IF docs = <<>> THEN <<>>
    ELSE (IF Retained(docs[1]) THEN <<docs[1]>> ELSE <<>>) \o Filtered(Tail(docs))

\* One element put into a sorted array, after the elements it does not sort
\* before (Array.prototype.sort is stable).
RECURSIVE InsertByDate(_, _)
InsertByDate(sorted, d) ==
    IF sorted = <<>> THEN <<d>>
    ELSE IF localeCompare(DateOr9999(sorted[1]), DateOr9999(d)) <= 0
         THEN <<sorted[1]>> \o InsertByDate(Tail(sorted), d)
         ELSE <<d>> \o sorted

\* .sort((a, b) => (a.date || '9999').localeCompare(b.date || '9999'))
RECURSIVE SortedByDate(_)
SortedByDate(docs) ==
    IF docs = <<>> THEN <<>>
    ELSE InsertByDate(SortedByDate(SubSeq(docs, 1, Len(docs) - 1)), docs[Len(docs)])

activeDocs(docs) == SortedByDate(Filtered(docs))

\* `Date: ${d.date || 'Undated'} | Type: ${d.type} | Summary: ${d.summary}`
TimelineLine(d) ==
    [date |-> IF d.date = NULL THEN "Undated" ELSE d.date, type |-> d.type, summary |-> d.summary]

\* timelineText, line by line
timelineText(docs) == [k \in 1..Len(activeDocs(docs)) |-> TimelineLine(activeDocs(docs)[k])]

\* generateMedicalReport(documents) builds its timeline text.
BuildTimeline ==
    /\ ~called
    /\ called' = TRUE
    /\ output' = timelineText(input)
    /\ UNCHANGED <<input, lastTx, retryVars, analysisVars, appVars>>

\* What generateContent may resolve with for the report request: response.text.
ReportResponses == {"no text", "not JSON", "report A"}

\* response.text || "{}"
TextOrEmptyObject(resp) == IF resp = "no text" THEN "{}" ELSE resp

ParseReport(text) ==
    CASE text = "{}"       -> EmptyObject
      [] text = "report A" -> ReportA

\* What withRetry(fn, 3) may end with for the report request.
ReportCallOutcomes ==
    {Thrown(e) : e \in CallErrors} \cup {Returned(t) : t \in ReportResponses}

Rejects == [rejected |-> TRUE, value |-> NoReport]

Resolves(v) == [rejected |-> FALSE, value |-> v]

\* The promise of generateMedicalReport, given how its withRetry ended:
\* JSON.parse(response.text || "{}") as ReportData.
generateMedicalReport(out) ==
    IF out.kind # "value" THEN Rejects
    ELSE IF TextOrEmptyObject(out.value) = "not JSON" THEN Rejects
    ELSE Resolves(ParseReport(TextOrEmptyObject(out.value)))

\* --------------------------------------------------------------------------
\* storageService: each function's transaction, as a function of the store
\* --------------------------------------------------------------------------
ProfileIds == {"p1", "p2"}

PatientProfile(id, n) == [id |-> id, name |-> n]

\* profile === null
NoProfile == PatientProfile("", "")

\* No call of the storage service yet.
NoTx == [fn |-> "none", profile |-> NoProfile, old |-> NoProfile,
         profileId |-> "", report |-> NoReport, oldReport |-> NoReport]

\* No function is being checked on its own.
NoCall == input = "" /\ output = "" /\ called = FALSE /\ lastTx = NoTx

\* The ids in key order (getAll returns records in key order).
DocOrder == <<"d1", "d2">>

\* A ProcessedDocument in memory: its id and its source file.
Doc(id, f) == [id |-> id, file |-> f]

StoredDoc_withUrl(pid, d) == d @@ [profileId |-> pid]

\* A record of 'documents': the document without previewUrl, with profileId.
StoredDoc(pid, d) == [profileId |-> pid, id |-> d.id, file |-> d.file]

StoredReport(pid, r) == [profileId |-> pid, report |-> r]

saveProfile_add(P, prof) == P \cup {prof}

\* saveProfile: put(profile)
saveProfile(P, prof) == {x \in P : x.id # prof.id} \cup {prof}

\* getAllProfiles
getAllProfiles(P) == P

RECURSIVE saveDocumentsToStorage_byId(_, _, _)
saveDocumentsToStorage_byId(D, pid, docs) ==
    IF docs = <<>> THEN D
    ELSE saveDocumentsToStorage_byId(
            {x \in D : x.id # docs[1].id} \cup {StoredDoc(pid, docs[1])},
            pid, Tail(docs))

\* saveDocumentsToStorage: one put per document, in order
RECURSIVE saveDocumentsToStorage(_, _, _)
saveDocumentsToStorage(D, pid, docs) ==
    IF docs = <<>> THEN D
    ELSE saveDocumentsToStorage(
            {x \in D : ~(x.profileId = pid /\ x.id = docs[1].id)}
                \cup {StoredDoc(pid, docs[1])},
            pid, Tail(docs))

\* loadDocumentsFromStorage: getAll, filtered by profileId
RECURSIVE LoadFrom(_, _, _)
LoadFrom(D, pid, k) ==
    IF k > Len(DocOrder) THEN <<>>
    ELSE LET hit == {x \in D : x.profileId = pid /\ x.id = DocOrder[k]}
         IN  (IF hit = {} THEN <<>> ELSE <<Doc(DocOrder[k], (CHOOSE x \in hit : TRUE).file)>>)
                \o LoadFrom(D, pid, k + 1)

loadDocumentsFromStorage(D, pid) == LoadFrom(D, pid, 1)

saveReportToStorage_add(R, pid, r) == R \cup {StoredReport(pid, r)}

\* saveReportToStorage: put({...report, profileId})
saveReportToStorage(R, pid, r) == {x \in R : x.profileId # pid} \cup {StoredReport(pid, r)}

loadReportFromStorage_undefined(R, pid) ==
    IF \E x \in R : x.profileId = pid
    THEN (CHOOSE x \in R : x.profileId = pid).report
    ELSE EmptyObject

\* loadReportFromStorage: get(profileId) || null
loadReportFromStorage(R, pid) ==
    IF \E x \in R : x.profileId = pid
    THEN (CHOOSE x \in R : x.profileId = pid).report
    ELSE NoReport

removeDocumentFromStorage_byId(D, pid, id) == {x \in D : x.id # id}

\* removeDocumentFromStorage: delete([profileId, id])
removeDocumentFromStorage(D, pid, id) == {x \in D : ~(x.profileId = pid /\ x.id = id)}

clearDocs_none(D, pid) == D

\* clearCurrentPatientData, its one transaction over documents and reports
clearDocs(D, pid) == {x \in D : x.profileId # pid}

clearReports_all(R, pid) == {}

clearReports(R, pid) == {x \in R : x.profileId # pid}

\* deleteProfileCompletely, its second transaction: delete(profileId)
deleteProfile(P, pid) == {x \in P : x.id # pid}

\* The stored profile with this id, NoProfile when there is none.
ProfileOf(P, pid) == IF \E x \in P : x.id = pid THEN CHOOSE x \in P : x.id = pid ELSE NoProfile

\* One call of the storage service, as its caller sees it settle.
Tx(fn, prof, old, pid, r, oldR) ==
    [fn |-> fn, profile |-> prof, old |-> old, profileId |-> pid, report |-> r, oldReport |-> oldR]

\* await saveProfile(x)
SaveProfileTx(x) ==
    /\ sProfiles' = saveProfile(sProfiles, x)
    /\ lastTx' = Tx("saveProfile", x, ProfileOf(sProfiles, x.id), x.id, NoReport, NoReport)
    /\ UNCHANGED <<sDocs, sReports, activeId, uiVars, procVars>>
    /\ UNCHANGED <<input, output, called, retryVars, analysisVars>>

\* await saveReportToStorage(pid, r)
SaveReportTx(pid, r) ==
    /\ sReports' = saveReportToStorage(sReports, pid, r)
    /\ lastTx' = Tx("saveReport", NoProfile, NoProfile, pid, r, loadReportFromStorage(sReports, pid))
    /\ UNCHANGED <<sProfiles, sDocs, activeId, uiVars, procVars>>
    /\ UNCHANGED <<input, output, called, retryVars, analysisVars>>

\* await clearCurrentPatientData(pid)
ClearTx(pid) ==
    /\ sDocs' = clearDocs(sDocs, pid)
    /\ sReports' = clearReports(sReports, pid)
    /\ lastTx' = Tx("clear", NoProfile, NoProfile, pid, NoReport, loadReportFromStorage(sReports, pid))
                    @@ [hadDocs |-> \E x \in sDocs : x.profileId = pid]
    /\ UNCHANGED <<sProfiles, activeId, uiVars, procVars>>
    /\ UNCHANGED <<input, output, called, retryVars, analysisVars>>

\* await deleteProfileCompletely(pid), run alone
DeleteTx(pid) ==
    /\ sDocs' = clearDocs(sDocs, pid)
    /\ sReports' = clearReports(sReports, pid)
    /\ sProfiles' = deleteProfile(sProfiles, pid)
    /\ lastTx' = Tx("delete", NoProfile, ProfileOf(sProfiles, pid), pid, NoReport,
                    loadReportFromStorage(sReports, pid))
                    @@ [hadDocs |-> \E x \in sDocs : x.profileId = pid]
    /\ UNCHANGED <<activeId, uiVars, procVars>>
    /\ UNCHANGED <<input, output, called, retryVars, analysisVars>>

\* A ProcessedDocument as saveDocumentsToStorage receives it: with the
\* previewUrl made for it in memory. file is "" when the document has none.
MemDoc(id, f, url) == [id |-> id, file |-> f, previewUrl |-> url]

\* await saveDocumentsToStorage(pid, docs)
SaveDocumentsTx(pid, docs) ==
    /\ sDocs' = saveDocumentsToStorage(sDocs, pid, docs)
    /\ lastTx' = [fn |-> "saveDocuments", profileId |-> pid, docs |-> docs]
    /\ UNCHANGED <<sProfiles, sReports, activeId, uiVars, procVars>>
    /\ UNCHANGED <<input, output, called, retryVars, analysisVars>>

\* await removeDocumentFromStorage(pid, id)
RemoveDocumentTx(pid, id) ==
    /\ sDocs' = removeDocumentFromStorage(sDocs, pid, id)
    /\ lastTx' = [fn |-> "removeDocument", profileId |-> pid, id |-> id,
                  had |-> \E x \in sDocs : x.profileId = pid /\ x.id = id]
    /\ UNCHANGED <<sProfiles, sReports, activeId, uiVars, procVars>>
    /\ UNCHANGED <<input, output, called, retryVars, analysisVars>>

\* How the transaction of a write ends: it completes, one of its requests
\* fails (the error event bubbles to the transaction, which then aborts), or
\* it aborts with no request in error (the commit fails, e.g. on quota; only
\* the abort event is fired).
TxEndings == {"complete", "request error", "abort"}

\* The promise a write returns: tx.oncomplete = () => resolve(),
\* tx.onerror = () => reject(tx.error); no handler is set for abort.
WritePromise(how) ==
    CASE how = "complete"      -> "resolved"
      [] how = "request error" -> "rejected"
      [] how = "abort"         -> "pending"

StoreWrites ==
    {"saveProfile", "saveDocumentsToStorage", "saveReportToStorage",
     "removeDocumentFromStorage", "clearCurrentPatientData", "deleteProfileCompletely"}

\* A write whose transaction does not commit: the store is as before.
WriteNotCommitted(fn, how) ==
    /\ how # "complete"
    /\ lastTx' = [fn |-> "not committed", write |-> fn, how |-> how, promise |-> WritePromise(how)]
    /\ UNCHANGED <<storeVars, uiVars, procVars>>
    /\ UNCHANGED <<input, output, called, retryVars, analysisVars>>

\* previewUrl: doc.file ? URL.createObjectURL(doc.file) : ''
PreviewUrlOf(doc) == IF doc.file # "" THEN "blob:load" ELSE ""

\* What loadDocumentsFromStorage resolves with: each stored record of the
\* profile, with the previewUrl made by this load.
loadedDocuments(D, pid) ==
    [k \in 1..Len(loadDocumentsFromStorage(D, pid)) |->
        MemDoc(loadDocumentsFromStorage(D, pid)[k].id,
               loadDocumentsFromStorage(D, pid)[k].file,
               PreviewUrlOf(loadDocumentsFromStorage(D, pid)[k]))]

\* await loadDocumentsFromStorage(pid)
LoadDocumentsCall(pid) ==
    /\ lastTx' = [fn |-> "loadDocuments", profileId |-> pid, result |-> loadedDocuments(sDocs, pid)]
    /\ UNCHANGED <<storeVars, uiVars, procVars>>
    /\ UNCHANGED <<input, output, called, retryVars, analysisVars>>

\* await loadReportFromStorage(pid)
LoadReportCall(pid) ==
    /\ lastTx' = [fn |-> "loadReport", profileId |-> pid,
                  result |-> loadReportFromStorage(sReports, pid)]
    /\ UNCHANGED <<storeVars, uiVars, procVars>>
    /\ UNCHANGED <<input, output, called, retryVars, analysisVars>>

\* await getAllProfiles()
GetAllProfilesCall ==
    /\ lastTx' = [fn |-> "getAllProfiles", result |-> getAllProfiles(sProfiles)]
    /\ UNCHANGED <<storeVars, uiVars, procVars>>
    /\ UNCHANGED <<input, output, called, retryVars, analysisVars>>

\* --------------------------------------------------------------------------
\* openDB
\* --------------------------------------------------------------------------
DB_VERSION == 3

STORE_DOCS == "documents"

STORE_REPORTS == "reports"

STORE_PROFILES == "profiles"

Collections == {STORE_DOCS, STORE_REPORTS, STORE_PROFILES}

\* The database on disk: its version (0: it does not exist yet) and, for each
\* object store it has, the records of that store.
Database(v, stores) == [version |-> v, stores |-> stores]

createMissing_recreate(stores) == [c \in Collections |-> {}]

\* request.onupgradeneeded: createObjectStore for each store that
\* objectStoreNames does not contain
createMissing(stores) ==
    [c \in Collections |-> IF c \in DOMAIN stores THEN stores[c] ELSE {}]

\* openDB: indexedDB.open(DB_NAME, DB_VERSION). A database of a lower version
\* is upgraded, one of the same version is opened as it is, one of a higher
\* version fails the request (VersionError) and the promise rejects.
openDB(db) ==
    IF db.version > DB_VERSION THEN [rejected |-> TRUE, db |-> db]
    ELSE IF db.version < DB_VERSION
         THEN [rejected |-> FALSE, db |-> Database(DB_VERSION, createMissing(db.stores))]
         ELSE [rejected |-> FALSE, db |-> db]

\* await openDB()
OpenDB ==
    /\ ~called
    /\ output' = openDB(input)
    /\ called' = TRUE
    /\ UNCHANGED <<input, lastTx, retryVars, analysisVars, appVars>>

\* --------------------------------------------------------------------------
\* App
\*
\* A handler is one step, except where it awaits an inference call (the user
\* acts while the call is in flight) and except deleteProfileCompletely, whose
\* two transactions are two steps.
\* --------------------------------------------------------------------------
IdleUp == [pc |-> "idle", profile |-> NoProfile, documents |-> <<>>, files |-> <<>>]

IdleRp == [pc |-> "idle", profile |-> NoProfile]

\* had: whether the first transaction removed a document or a report (history
\* kept for the properties; the code does not read it)
IdleDel == [pc |-> "idle", id |-> "", profile |-> NoProfile, had |-> FALSE]

ProcsIdle == up = IdleUp /\ rp = IdleRp /\ del = IdleDel

\* useState initial values; initApp not yet run
UiFresh ==
    /\ step = "DASHBOARD" /\ profile = NoProfile /\ allProfiles = {}
    /\ documents = <<>> /\ report = NoReport /\ error = ""
    /\ isInitializing = TRUE

\* A first visit: nothing stored.
AppFresh ==
    /\ sProfiles = {} /\ sDocs = {} /\ sReports = {} /\ activeId = ""
    /\ UiFresh /\ ProcsIdle

LoadedStep_docsFirst(savedDocs, savedReport) ==
    IF Len(savedDocs) > 0 THEN "REVIEW"
    ELSE IF savedReport # NoReport THEN "RESULT"
    ELSE "UPLOAD"

\* The step a loaded patient is shown at.
LoadedStep(savedDocs, savedReport) ==
    IF savedReport # NoReport THEN "RESULT"
    ELSE IF Len(savedDocs) > 0 THEN "REVIEW"
    ELSE "UPLOAD"

\* The UI takes user input: the loader is not shown.
Interactive == ~isInitializing

\* initApp (the mount effect)
InitApp ==
    /\ isInitializing
    /\ allProfiles' = getAllProfiles(sProfiles)
    /\ isInitializing' = FALSE
    /\ IF activeId # "" /\ (\E x \in sProfiles : x.id = activeId)
       THEN LET activeProfile == CHOOSE x \in sProfiles : x.id = activeId
                savedDocs == loadDocumentsFromStorage(sDocs, activeId)
                savedReport == loadReportFromStorage(sReports, activeId)
            IN  /\ profile' = activeProfile
                /\ documents' = savedDocs
                /\ report' = (IF savedReport # NoReport THEN savedReport ELSE report)
                /\ step' = LoadedStep(savedDocs, savedReport)
       ELSE UNCHANGED <<profile, documents, report, step>>
    /\ UNCHANGED <<storeVars, error, procVars>>

\* The page is reloaded: the component state and the running handlers are gone,
\* the store and localStorage stay.
Reload ==
    /\ Interactive
    /\ step' = "DASHBOARD" /\ profile' = NoProfile /\ allProfiles' = {}
    /\ documents' = <<>> /\ report' = NoReport /\ error' = ""
    /\ isInitializing' = TRUE
    /\ up' = IdleUp /\ rp' = IdleRp /\ del' = IdleDel
    /\ UNCHANGED storeVars

\* setStep(AppStep.DASHBOARD): the header logo, the Hub button, the
\* registration form's cancel
GoDashboard ==
    /\ Interactive
    /\ step # "DASHBOARD"
    /\ step' = "DASHBOARD"
    /\ UNCHANGED <<storeVars, profile, allProfiles, documents, report, error,
                   isInitializing, procVars>>

\* setStep(AppStep.REGISTRATION): the header's New Patient (no profile) or the
\* dashboard's onNew
GoRegistration ==
    /\ Interactive
    /\ profile = NoProfile \/ step = "DASHBOARD"
    /\ step # "REGISTRATION"
    /\ step' = "REGISTRATION"
    /\ UNCHANGED <<storeVars, profile, allProfiles, documents, report, error,
                   isInitializing, procVars>>

\* setStep(AppStep.REVIEW): Back to Timeline on the result page
BackToTimeline ==
    /\ Interactive
    /\ step = "RESULT" /\ report # NoReport
    /\ step' = "REVIEW"
    /\ UNCHANGED <<storeVars, profile, allProfiles, documents, report, error,
                   isInitializing, procVars>>

\* setError(null): the error banner's dismiss button
DismissError ==
    /\ Interactive
    /\ error # ""
    /\ error' = ""
    /\ UNCHANGED <<storeVars, step, profile, allProfiles, documents, report,
                   isInitializing, procVars>>

\* handleProfileComplete(newProfile)
HandleProfileComplete(np) ==
    /\ Interactive
    /\ step = "REGISTRATION"
    /\ sProfiles' = saveProfile(sProfiles, np)
    /\ profile' = np
    /\ activeId' = np.id
    /\ allProfiles' = getAllProfiles(sProfiles')
    /\ step' = "UPLOAD"
    /\ UNCHANGED <<sDocs, sReports, documents, report, error, isInitializing, procVars>>

\* What analyzeDocumentsMetadata may resolve with for n files: the ids of its
\* records (each batch pushes zero, one or two records).
MetaLists(n) == UNION { [1..m -> DocIds] : m \in 0..(2 * n) }

\* handleFilesSelected(files) up to await analyzeDocumentsMetadata
HandleFilesSelected(fs) ==
    /\ Interactive
    /\ step = "UPLOAD"
    /\ profile # NoProfile
    /\ up.pc = "idle"
    /\ Len(documents) + Len(fs) <= MaxDocs
    /\ error' = ""
    /\ step' = "ANALYZING_METADATA"
    /\ up' = [pc |-> "analyzing", profile |-> profile, documents |-> documents, files |-> fs]
    /\ UNCHANGED <<storeVars, profile, allProfiles, documents, report,
                   isInitializing, rp, del>>

\* const newDocs = [...documents, ...processed], processed pairing metaData[index]
\* with files[index]
newDocs(docs, meta, fs) == docs \o [k \in 1..Len(meta) |-> Doc(meta[k], fs[k])]

\* analyzeDocumentsMetadata resolves with metaData: the rest of
\* handleFilesSelected. URL.createObjectURL(files[index]) throws for an index
\* past the files.
AnalysisResolved(meta) ==
    /\ up.pc = "analyzing"
    /\ IF Len(meta) > Len(up.files)
       THEN /\ error' = "upload error"
            /\ step' = "UPLOAD"
            /\ UNCHANGED <<sDocs, documents>>
       ELSE /\ sDocs' = saveDocumentsToStorage(sDocs, up.profile.id,
                                               newDocs(up.documents, meta, up.files))
            /\ documents' = newDocs(up.documents, meta, up.files)
            /\ step' = "REVIEW"
            /\ UNCHANGED error
    /\ up' = IdleUp
    /\ UNCHANGED <<sProfiles, sReports, activeId, profile, allProfiles, report,
                   isInitializing, rp, del>>

\* documents.filter(d => d.id !== id)
RECURSIVE WithoutId(_, _)
WithoutId(docs, id) ==
    IF docs = <<>> THEN <<>>
    ELSE (IF docs[1].id = id THEN <<>> ELSE <<docs[1]>>) \o WithoutId(Tail(docs), id)

\* handleRemoveDocument(id)
HandleRemoveDocument(id) ==
    /\ Interactive
    /\ step = "REVIEW"
    /\ profile # NoProfile
    /\ \E k \in 1..Len(documents) : documents[k].id = id
    /\ documents' = WithoutId(documents, id)
    /\ sDocs' = removeDocumentFromStorage(sDocs, profile.id, id)
    /\ UNCHANGED <<sProfiles, sReports, activeId, step, profile, allProfiles, report,
                   error, isInitializing, procVars>>

\* handleGenerateReport up to await generateMedicalReport
HandleGenerateReport ==
    /\ Interactive
    /\ step = "REVIEW"
    /\ Len(documents) > 0
    /\ profile # NoProfile
    /\ rp.pc = "idle"
    /\ step' = "GENERATING_REPORT"
    /\ rp' = [pc |-> "generating", profile |-> profile]
    /\ UNCHANGED <<storeVars, profile, allProfiles, documents, report, error,
                   isInitializing, up, del>>

\* generateMedicalReport settles: the rest of handleGenerateReport
ReportSettled(out) ==
    /\ rp.pc = "generating"
    /\ LET g == generateMedicalReport(out)
       IN  IF g.rejected
           THEN /\ error' = "Synthesis failed"
                /\ step' = "REVIEW"
                /\ UNCHANGED <<sReports, report>>
           ELSE /\ sReports' = saveReportToStorage(sReports, rp.profile.id, g.value)
                /\ report' = g.value
                /\ step' = "RESULT"
                /\ UNCHANGED error
    /\ rp' = IdleRp
    /\ UNCHANGED <<sProfiles, sDocs, activeId, profile, allProfiles, documents,
                   isInitializing, up, del>>

\* handleLogout
HandleLogout ==
    /\ Interactive
    /\ profile # NoProfile
    /\ activeId' = ""
    /\ profile' = NoProfile
    /\ documents' = <<>>
    /\ report' = NoReport
    /\ step' = "DASHBOARD"
    /\ UNCHANGED <<sProfiles, sDocs, sReports, allProfiles, error, isInitializing, procVars>>

\* handleSelectPatient(p)
HandleSelectPatient(p) ==
    /\ Interactive
    /\ step = "DASHBOARD"
    /\ p \in allProfiles
    /\ LET savedDocs == loadDocumentsFromStorage(sDocs, p.id)
           savedReport == loadReportFromStorage(sReports, p.id)
       IN  /\ profile' = p
           /\ activeId' = p.id
           /\ documents' = savedDocs
           /\ report' = savedReport
           /\ step' = LoadedStep(savedDocs, savedReport)
    /\ UNCHANGED <<sProfiles, sDocs, sReports, allProfiles, error, isInitializing, procVars>>

HasData(pid) == (\E x \in sDocs : x.profileId = pid) \/ (\E x \in sReports : x.profileId = pid)

\* handleDeletePatient(id), confirmed: deleteProfileCompletely up to the commit
\* of clearCurrentPatientData's transaction
HandleDeletePatient(id) ==
    /\ Interactive
    /\ step = "DASHBOARD"
    /\ \E x \in allProfiles : x.id = id
    /\ del.pc = "idle"
    /\ sDocs' = clearDocs(sDocs, id)
    /\ sReports' = clearReports(sReports, id)
    /\ del' = [pc |-> "deletingProfile", id |-> id, profile |-> profile, had |-> HasData(id)]
    /\ UNCHANGED <<sProfiles, activeId, uiVars, up, rp>>

\* deleteProfileCompletely: the profiles transaction commits; then
\* if (profile?.id === id) handleLogout(); await refreshProfiles()
DeleteProfileDeleted ==
    /\ del.pc = "deletingProfile"
    /\ sProfiles' = deleteProfile(sProfiles, del.id)
    /\ IF del.profile.id = del.id
       THEN /\ activeId' = ""
            /\ profile' = NoProfile
            /\ documents' = <<>>
            /\ report' = NoReport
            /\ step' = "DASHBOARD"
       ELSE UNCHANGED <<activeId, profile, documents, report, step>>
    /\ allProfiles' = getAllProfiles(sProfiles')
    /\ del' = IdleDel
    /\ UNCHANGED <<sDocs, sReports, error, isInitializing, up, rp>>

\* handleClearHistory, confirmed (the handler is defined but no control of the
\* rendered tree is bound to it; it is kept as the operation it implements)
HandleClearHistory ==
    /\ Interactive
    /\ profile # NoProfile
    /\ sDocs' = clearDocs(sDocs, profile.id)
    /\ sReports' = clearReports(sReports, profile.id)
    /\ documents' = <<>>
    /\ report' = NoReport
    /\ error' = ""
    /\ step' = "UPLOAD"
    /\ UNCHANGED <<sProfiles, activeId, profile, allProfiles, isInitializing, procVars>>

\* --------------------------------------------------------------------------
\* The App's handlers when their store write does not commit
\* --------------------------------------------------------------------------

\* tx.error as tx.onerror reads it: the transaction's error is set when the
\* transaction aborts, which follows the dispatch of the request's error
\* event; a handler run during the dispatch may still read null.
TxErrors == {"DOMException", NULL}

\* handleFilesSelected: the analysis resolved and its records were attached to
\* the files, and the transaction of saveDocumentsToStorage does not commit.
\* A rejection is caught (err.message of a null reason throws out of the catch
\* clause); a promise left pending never resumes the handler.
UploadSaveFails(meta, how, txError) ==
    /\ up.pc = "analyzing"
    /\ Len(meta) <= Len(up.files)
    /\ how # "complete"
    /\ IF WritePromise(how) = "rejected" /\ txError # NULL
       THEN /\ error' = "storage error"
            /\ step' = "UPLOAD"
       ELSE UNCHANGED <<error, step>>
    /\ up' = IdleUp
    /\ UNCHANGED <<storeVars, profile, allProfiles, documents, report,
                   isInitializing, rp, del>>

\* handleGenerateReport: generateMedicalReport resolved and the transaction of
\* saveReportToStorage does not commit. The catch clause does not read the
\* reason.
ReportSaveFails(out, how) ==
    /\ rp.pc = "generating"
    /\ ~generateMedicalReport(out).rejected
    /\ how # "complete"
    /\ IF WritePromise(how) = "rejected"
       THEN /\ error' = "Synthesis failed"
            /\ step' = "REVIEW"
       ELSE UNCHANGED <<error, step>>
    /\ rp' = IdleRp
    /\ UNCHANGED <<storeVars, profile, allProfiles, documents, report,
                   isInitializing, up, del>>

\* Who registers: RegistrationForm builds the profile, its id a random token.
Registrants == {PatientProfile("p1", "Ann")}

NextApp ==
    \/ InitApp
    \/ Reload
    \/ GoDashboard
    \/ GoRegistration
    \/ BackToTimeline
    \/ DismissError
    \/ \E np \in Registrants : HandleProfileComplete(np)
    \/ HandleFilesSelected(<<"f1">>)
    \/ \E meta \in MetaLists(Len(up.files)) : AnalysisResolved(meta)
    \/ \E id \in DocIds : HandleRemoveDocument(id)
    \/ HandleGenerateReport
    \/ \E out \in ReportCallOutcomes : ReportSettled(out)
    \/ HandleLogout
    \/ \E p \in allProfiles : HandleSelectPatient(p)
    \/ \E id \in ProfileIds : HandleDeletePatient(id)
    \/ DeleteProfileDeleted
    \/ HandleClearHistory

Next == NextApp /\ UNCHANGED <<retryVars, analysisVars, callVars>>

Init == RetryIdle /\ AnalysisIdle /\ AppFresh /\ NoCall

Spec == Init /\ [][Next]_vars

\* --------------------------------------------------------------------------
\* Properties of the store and the App, checked under Spec
\* --------------------------------------------------------------------------

\* C3: in every reachable state of the store every stored document and every
\* stored report has a profileId for which a profile exists in the profiles
\* collection.
C3_ReferentialIntegrity ==
    /\ \A d \in sDocs : \E x \in sProfiles : x.id = d.profileId
    /\ \A r \in sReports : \E x \in sProfiles : x.id = r.profileId

\* Nothing of patient pid is in the store st = <<profiles, docs, reports>>.
NothingOf(pid, st) ==
    /\ \A x \in st[1] : x.id # pid
    /\ \A x \in st[2] : x.profileId # pid
    /\ \A x \in st[3] : x.profileId # pid

\* C4: when deleteProfileCompletely(p) completes (its profiles transaction
\* commits), the store holds no document with profileId p, no report keyed p
\* and no profile with id p.
C4_DeleteLeavesNothing ==
    [][DeleteProfileDeleted => NothingOf(del.id, <<sProfiles', sDocs', sReports'>>)]_vars

\* A reader runs for patient pid: handleSelectPatient loads pid's documents and
\* report from the store.
SelectReads(pid) == \E p \in allProfiles : p.id = pid /\ HandleSelectPatient(p)

\* C5: no reader running while deleteProfileCompletely(p) is in progress
\* observes p's documents or report already removed while profile p is still
\* present.
C5_NoPartialCascadeObserved ==
    [][\A pid \in ProfileIds :
         (SelectReads(pid) /\ (\E x \in sProfiles : x.id = pid))
            => ~(del.pc = "deletingProfile" /\ del.id = pid /\ del.had)]_vars

\* clearCurrentPatientData(pid) commits in this step.
ClearCommits(pid) ==
    \/ HandleDeletePatient(pid)
    \/ HandleClearHistory /\ profile.id = pid

\* C6: when clearCurrentPatientData(p) completes the store holds no document
\* with profileId p and no report keyed p, and the profiles collection is what
\* it was: profile p still there with all its fields.
C6_ClearKeepsProfile ==
    [][\A pid \in ProfileIds :
         ClearCommits(pid)
            => /\ \A x \in sDocs' : x.profileId # pid
               /\ \A x \in sReports' : x.profileId # pid
               /\ sProfiles' = sProfiles]_vars

\* clearCurrentPatientData has just removed the documents and the report that
\* patient del.id had, and the profile is still stored.
C6_Witness ==
    /\ del.pc = "deletingProfile" /\ del.had
    /\ \E x \in sProfiles : x.id = del.id
    /\ \A x \in sDocs : x.profileId # del.id
    /\ \A x \in sReports : x.profileId # del.id

\* The inference service produced a report for the call: the call returned and
\* its response carries the report's text.
ServiceProducedReport(out) == out.kind = "value" /\ out.value = "report A"

\* C10: no fabricated or empty report: whenever the inference service does not
\* produce a report for the call, generateMedicalReport rejects and the
\* application leaves the stored reports and the shown report as they were.
C10_NoFabricatedReport ==
    /\ [][\A out \in ReportCallOutcomes :
            (ReportSettled(out) /\ ~ServiceProducedReport(out))
               => (generateMedicalReport(out).rejected /\ sReports' = sReports)]_vars
    /\ [](\A r \in sReports : r.report # EmptyObject)

\* --------------------------------------------------------------------------
\* Specifications
\* --------------------------------------------------------------------------

\* The files of a run: at each position an image that decodes, an image that
\* does not, or a PDF the FileReader cannot read.
FileAt(k) ==
    LET n == <<"f1", "f2", "f3", "f4">>[k]
    IN  { File(n, "image/png", TRUE, TRUE),
          File(n, "image/png", TRUE, FALSE),
          File(n, "application/pdf", FALSE, TRUE) }


FileLists ==
    UNION { {fs \in [1..n -> UNION {FileAt(k) : k \in 1..n}] :
               \A k \in 1..n : fs[k] \in FileAt(k)} : n \in 0..MaxFiles }

\* The kinds of record given to generateMedicalReport.
RecordKinds ==
    {Rec(d, tf[1], tf[2]) : d \in DateStrings \cup {NULL},
                            tf \in {<<"LAB", FALSE>>, <<"LAB", TRUE>>, <<"IMAGING", TRUE>>}}

RecordLists == UNION { [1..n -> RecordKinds] : n \in 0..MaxRecords }

\* generateMedicalReport's timeline, for every list of records
InitTimeline ==
    /\ RetryIdle /\ AnalysisIdle /\ AppFresh
    /\ input \in RecordLists /\ output = "" /\ called = FALSE /\ lastTx = NoTx

NextTimeline == BuildTimeline

SpecTimeline == InitTimeline /\ [][NextTimeline]_vars

\* The files given to fileToGenerativePart: every kind, readable or not,
\* decodable or not.
FileNames == {"f1", "f2", "f3", "f4"}

Files ==
    {File(n, t, r, d) : n \in FileNames, t \in FileTypes \cup {"image/jpeg"},
                        r \in BOOLEAN, d \in BOOLEAN}

\* fileToGenerativePart, for every file
InitNormalize ==
    /\ RetryIdle /\ AnalysisIdle /\ AppFresh
    /\ input \in Files /\ output = "" /\ called = FALSE /\ lastTx = NoTx

NextNormalize == Normalize

SpecNormalize == InitNormalize /\ [][NextNormalize]_vars

\* The sizes of the decoded images: below, at and above each cap, landscape,
\* portrait and square.
ImageWidths == {1, 600, 1200, 1201, 1500, 1600, 2400, 4800}

ImageHeights == {1, 800, 1200, 1600, 1601, 2000, 3200}

ImageSizes == {[width |-> w, height |-> h] : w \in ImageWidths, h \in ImageHeights}

\* compressImage's canvas, for every image size
InitCompress ==
    /\ RetryIdle /\ AnalysisIdle /\ AppFresh
    /\ input \in ImageSizes /\ output = "" /\ called = FALSE /\ lastTx = NoTx

NextCompress == SizeCanvas

SpecCompress == InitCompress /\ [][NextCompress]_vars

\* The profiles and reports given to the storage service.
ProfileNames == {"Ann", "Bob"}

StoreProfiles == {PatientProfile(id, n) : id \in ProfileIds, n \in ProfileNames}

StoreReports == {ReportA, ReportB}

\* The documents given to saveDocumentsToStorage: with or without a file,
\* each with the object URL the upload (or an earlier load) made for it.
StoreDocs == {MemDoc("d1", "f1", "blob:upload"), MemDoc("d2", "f1", "blob:upload"),
              MemDoc("d2", "", "blob:upload")}

StoreDocLists == {<<>>} \cup {<<a>> : a \in StoreDocs} \cup {<<a, b>> : a, b \in StoreDocs}

\* The storage service called directly, one call after the other
InitStore == RetryIdle /\ AnalysisIdle /\ AppFresh /\ NoCall

NextStore ==
    \/ \E x \in StoreProfiles : SaveProfileTx(x)
    \/ \E pid \in ProfileIds, r \in StoreReports : SaveReportTx(pid, r)
    \/ \E pid \in ProfileIds : ClearTx(pid)
    \/ \E pid \in ProfileIds : DeleteTx(pid)

SpecStore == InitStore /\ [][NextStore]_vars

\* Every function of the storage service called directly, reads and writes,
\* committed or not
InitStoreCalls == RetryIdle /\ AnalysisIdle /\ AppFresh /\ NoCall

NextStoreCalls ==
    \/ \E pid \in ProfileIds : SaveProfileTx(PatientProfile(pid, "Ann"))
    \/ \E pid \in ProfileIds : SaveReportTx(pid, ReportA)
    \/ \E pid \in ProfileIds : ClearTx(pid)
    \/ \E pid \in ProfileIds : DeleteTx(pid)
    \/ \E pid \in ProfileIds, docs \in StoreDocLists : SaveDocumentsTx(pid, docs)
    \/ \E pid \in ProfileIds, id \in DocIds : RemoveDocumentTx(pid, id)
    \/ \E fn \in StoreWrites, how \in TxEndings : WriteNotCommitted(fn, how)
    \/ \E pid \in ProfileIds : LoadDocumentsCall(pid)
    \/ \E pid \in ProfileIds : LoadReportCall(pid)
    \/ GetAllProfilesCall

SpecStoreCalls == InitStoreCalls /\ [][NextStoreCalls]_vars

\* What an object store may hold.
StoreContents == {{}, {"r1"}, {"r1", "r2"}}

\* The databases openDB may find: none yet, one left by an earlier version of
\* the schema with any of the object stores, one this code made (all three
\* stores), one made by a later version.
Databases ==
    {Database(0, <<>>)}
    \cup {Database(v, st) : v \in 1..(DB_VERSION - 1),
                            st \in UNION {[S -> StoreContents] : S \in SUBSET Collections}}
    \cup {Database(v, st) : v \in {DB_VERSION, DB_VERSION + 1},
                            st \in [Collections -> StoreContents]}

\* openDB, for every database
InitOpen ==
    /\ RetryIdle /\ AnalysisIdle /\ AppFresh
    /\ input \in Databases /\ output = "" /\ called = FALSE /\ lastTx = NoTx

NextOpen == OpenDB

SpecOpen == InitOpen /\ [][NextOpen]_vars

\* Two people register, each once (the id RegistrationForm draws is new).
Patients == {PatientProfile("p1", "Ann"), PatientProfile("p2", "Bob")}

\* The file the user picks while patient pid is the active profile.
UploadOf(pid) == IF pid = "p1" THEN "f1" ELSE "f2"

\* The ids of a list of documents.
IdsOf(docs) == {docs[k].id : k \in 1..Len(docs)}

\* The ids analyzeDocumentsMetadata draws are new: different from each other
\* and from every id drawn before that is still held or was just removed.
NewIds(meta) ==
    /\ \A a, b \in 1..Len(meta) : a # b => meta[a] # meta[b]
    /\ \A k \in 1..Len(meta) :
          /\ meta[k] \notin IdsOf(documents) \cup IdsOf(up.documents)
          /\ \A x \in sDocs : x.id # meta[k]
          /\ lastTx.fn = "removeDocument" => lastTx.id # meta[k]

\* handleRemoveDocument(id), with its removeDocumentFromStorage call recorded
RemoveDocumentDone(id) ==
    /\ HandleRemoveDocument(id)
    /\ lastTx' = [fn |-> "removeDocument", profileId |-> profile.id, id |-> id,
                  had |-> \E x \in sDocs : x.profileId = profile.id /\ x.id = id]
    /\ UNCHANGED <<input, output, called, retryVars, analysisVars>>

\* The step records no call: the history variables stay.
NoCallMade == UNCHANGED <<retryVars, analysisVars, callVars>>

\* The App used by two patients: registering, uploading, removing, synthesis,
\* switching patient and logging out, in any interleaving
NextPatients ==
    \/ InitApp /\ NoCallMade
    \/ GoDashboard /\ NoCallMade
    \/ GoRegistration /\ NoCallMade
    \/ BackToTimeline /\ NoCallMade
    \/ \E np \in Patients :
          (\A x \in sProfiles : x.id # np.id) /\ HandleProfileComplete(np) /\ NoCallMade
    \/ HandleFilesSelected(<<UploadOf(profile.id)>>) /\ NoCallMade
    \/ \E meta \in MetaLists(Len(up.files)) :
          NewIds(meta) /\ AnalysisResolved(meta) /\ NoCallMade
    \/ HandleGenerateReport /\ NoCallMade
    \/ \E out \in ReportCallOutcomes : ReportSettled(out) /\ NoCallMade
    \/ HandleLogout /\ NoCallMade
    \/ \E p \in allProfiles : HandleSelectPatient(p) /\ NoCallMade
    \/ \E id \in DocIds : RemoveDocumentDone(id)

SpecPatients == Init /\ [][NextPatients]_vars

\* The App with store writes that may fail
NextFaults ==
    \/ Next
    \/ \E meta \in MetaLists(Len(up.files)), how \in TxEndings, txError \in TxErrors :
          UploadSaveFails(meta, how, txError) /\ NoCallMade
    \/ \E out \in ReportCallOutcomes, how \in TxEndings : ReportSaveFails(out, how) /\ NoCallMade

SpecFaults == Init /\ [][NextFaults]_vars

InitRetry == RetryIdle /\ AnalysisIdle /\ AppFresh /\ NoCall

NextRetry ==
    \/ \E m \in 0..MaxBudget : RetryStart(m) /\ UNCHANGED <<analysisVars, appVars, callVars>>
    \/ RetryLoopExit /\ UNCHANGED <<analysisVars, appVars, callVars>>
    \/ \E v \in Responses : RetryInvokeOk(v) /\ UNCHANGED <<analysisVars, appVars, callVars>>
    \/ \E e \in Errors : RetryInvokeFail(e) /\ UNCHANGED <<analysisVars, appVars, callVars>>
    \/ RetryBackoff /\ UNCHANGED <<analysisVars, appVars, callVars>>
    \/ RetryWake /\ UNCHANGED <<analysisVars, appVars, callVars>>
    \/ RetryRethrow /\ UNCHANGED <<analysisVars, appVars, callVars>>

SpecRetry == InitRetry /\ [][NextRetry]_vars

InitAnalyze == RetryIdle /\ AnalysisIdle /\ AppFresh /\ NoCall

\* The budget of the call is 6, so the loop of withRetry is never left by its
\* condition here: RetryLoopExit is not a step of a run.
NextAnalyze ==
    \/ \E fs \in FileLists : AnalyzeStart(fs) /\ UNCHANGED <<appVars, callVars>>
    \/ BatchPartsRejected /\ UNCHANGED <<appVars, callVars>>
    \/ BatchCall /\ UNCHANGED <<appVars, callVars>>
    \/ \E v \in Responses : (aPc = "calling" /\ RetryInvokeOk(v) /\ UNCHANGED <<analysisVars, appVars, callVars>>)
    \/ \E e \in CallErrors : (aPc = "calling" /\ RetryInvokeFail(e) /\ UNCHANGED <<analysisVars, appVars, callVars>>)
    \/ (aPc = "calling" /\ RetryBackoff /\ UNCHANGED <<analysisVars, appVars, callVars>>)
    \/ (aPc = "calling" /\ RetryWake /\ UNCHANGED <<analysisVars, appVars, callVars>>)
    \/ (aPc = "calling" /\ RetryRethrow /\ UNCHANGED <<analysisVars, appVars, callVars>>)
    \/ BatchEnd /\ UNCHANGED <<appVars, callVars>>
    \/ AnalyzeReturn /\ UNCHANGED <<appVars, callVars>>

SpecAnalyze == InitAnalyze /\ [][NextAnalyze]_vars

\* --------------------------------------------------------------------------
\* Properties of withRetry (checked under SpecRetry)
\* --------------------------------------------------------------------------

\* C7: a rate-limit class failure of the k-th invocation (k counted from 1) with
\* k < maxRetries is followed by a sleep of 2^k * 2500 ms and then by another
\* invocation of the work; the delays of one execution are strictly increasing.
C7_BackoffThenRetry ==
    /\ [][(rPc = "caught" /\ RateLimitClass(lastErr) /\ rCalls < rMax)
            => (/\ rPc' = "sleeping"
                /\ rDelays' = Append(rDelays, (2 ^ rCalls) * 2500)
                /\ rCalls' = rCalls)]_vars
    /\ [][rPc = "sleeping"
            => (rPc' = "loop" /\ attempt' < rMax /\ rDelays' = rDelays)]_vars
    /\ [][(rPc = "loop" /\ attempt < rMax) => rCalls' = rCalls + 1]_vars
    /\ [](\A a, b \in 1..Len(rDelays) : a < b => rDelays[a] < rDelays[b])

\* C7 witness: an execution that backed off three times (5 s, 10 s, 20 s) and
\* invoked the work a fourth time.
C7_Witness ==
    /\ rDelays = <<5000, 10000, 20000>>
    /\ rCalls = 4

\* C8 (as stated): when all maxRetries invocations fail with a rate-limit class
\* error, the execution ends with the retry-budget-exceeded error, having slept
\* maxRetries - 1 times (no sleep after the last failure).
C8_BudgetErrorOnExhaustion ==
    (rPc = "threw" /\ rMax >= 1 /\ rCalls = rMax /\ rAllRate)
        => (rOut.kind = "budget" /\ Len(rDelays) = rMax - 1)

\* C9 (as stated): a failure that is not rate-limit class is re-raised at once:
\* no sleep and no further invocation follow it.
C9_TerminalRethrownAtOnce ==
    [][(rPc = "caught" /\ ~RateLimitClass(lastErr))
         => (/\ rPc' = "threw"
             /\ rOut' = [kind |-> "error", value |-> "", err |-> lastErr]
             /\ rDelays' = rDelays
             /\ rCalls' = rCalls)]_vars

\* --------------------------------------------------------------------------
\* Properties of analyzeDocumentsMetadata (checked under SpecAnalyze)
\* --------------------------------------------------------------------------

\* C1 (as stated): a run over N files returns exactly N records, the k-th of
\* them pushed by the batch of the k-th file, whatever each call resolved with.
C1_OneRecordPerFileInOrder ==
    aPc = "done" =>
        /\ Len(allResults) = Len(files)
        /\ \A k \in 1..Len(allResults) : origin[k] = k

\* C2: when withRetry throws for a batch, the run goes on: exactly one record
\* is appended, with type OTHER, date null and isDuplicate false, the loop
\* moves to the next file, and the run ends only after every batch has ended.
C2_FailedBatchYieldsPlaceholder ==
    /\ [][(aPc = "calling" /\ rPc = "threw")
            => (/\ Len(allResults') = Len(allResults) + 1
                /\ SubSeq(allResults', 1, Len(allResults)) = allResults
                /\ allResults'[Len(allResults')].type = "OTHER"
                /\ allResults'[Len(allResults')].date = "null"
                /\ allResults'[Len(allResults')].isDuplicate = FALSE
                /\ aPc' = "loop"
                /\ i' = i + 1)]_vars
    /\ [](aPc = "done" =>
            /\ i = Len(files)
            /\ \A b \in 0..(Len(files) - 1) :
                 \E n \in 1..Len(aLog) : aLog[n].ev = "end" /\ aLog[n].batch = b)

\* C2 witness: a finished run over two files whose first call exhausted its
\* six attempts and whose second call was answered.
C2_Witness ==
    /\ aPc = "done"
    /\ Len(files) = 2
    /\ \E n \in 1..Len(aLog) :
         aLog[n].ev = "end" /\ aLog[n].batch = 0 /\ aLog[n].how = "retries exhausted"
    /\ Len(allResults) = 2
    /\ allResults[1].type = "OTHER" /\ allResults[1].date = "null"
    /\ allResults[2].summary = "CBC normal"

\* --------------------------------------------------------------------------
\* Properties of the timeline, checked under SpecTimeline
\* --------------------------------------------------------------------------

\* How many elements of the sequence sq satisfy Test.
HowMany(sq, Test(_)) == Cardinality({k \in 1..Len(sq) : Test(sq[k])})

\* C11: the timeline text contains one line for each input record that is not
\* duplicate-flagged or whose type is IMAGING, and no line for any
\* duplicate-flagged record of another type.
C11_TimelineKeepsUnflaggedAndImaging ==
    called =>
        \A d \in RecordKinds :
            LET IsLine(l) == l = TimelineLine(d)
                Kept(x)   == (~x.isDuplicate \/ x.type = "IMAGING") /\ TimelineLine(x) = TimelineLine(d)
            IN  HowMany(output, IsLine) = HowMany(input, Kept)

\* The timeline of a flagged IMAGING record, a flagged LAB record and an
\* unflagged one has been built.
C11_Witness ==
    /\ called
    /\ Len(input) = 3 /\ Len(output) = 2
    /\ \E k \in 1..3 : input[k].isDuplicate /\ input[k].type = "IMAGING"
    /\ \E k \in 1..3 : input[k].isDuplicate /\ input[k].type = "LAB"

\* The day a standardized date names.
DayOf(str) ==
    CASE str = "2022-11-01" -> 20221101
      [] str = "2023-01-05" -> 20230105

Standardized == {"2022-11-01", "2023-01-05"}

\* C12: the retained records appear in ascending order of their date, and
\* every record with an absent date appears after every record that has a
\* date, for every date string the extraction step can store.
C12_TimelineAscendingUndatedLast ==
    called =>
        \A a, b \in 1..Len(output) :
            a < b =>
                /\ (output[a].date \in Standardized /\ output[b].date \in Standardized)
                      => DayOf(output[a].date) <= DayOf(output[b].date)
                /\ ~(output[a].date = "Undated" /\ output[b].date # "Undated")

\* --------------------------------------------------------------------------
\* Properties of fileToGenerativePart, checked under SpecNormalize
\* --------------------------------------------------------------------------

\* A step of the file's normalization fails: the read, or the step after it
\* (a PDF has none).
NormalizationFails(file) ==
    ~file.readOk \/ (file.type # "application/pdf" /\ ~file.decodeOk)

IsRaster(file) == file.type \in {"image/png", "image/jpeg"}

\* C13: for every file kind, if any step of normalization fails,
\* fileToGenerativePart resolves to a text payload naming the file and never
\* rejects.
C13_FailureAbsorbedForEveryKind ==
    (called /\ NormalizationFails(input))
        => (output.kind = "text" /\ output.name = input.name)

\* C14: for a raster image whose read, decode or canvas step fails,
\* fileToGenerativePart resolves to a text payload with the original filename
\* and an error marker; it does not reject.
C14_ImageFailureAbsorbed ==
    (called /\ IsRaster(input) /\ NormalizationFails(input))
        => (/\ output.kind = "text"
            /\ output.name = input.name
            /\ output.label = "Error processing file")

\* An image that is read but does not decode has been normalized.
C14_Witness ==
    /\ called
    /\ input.type = "image/png" /\ input.readOk /\ ~input.decodeOk
    /\ output.kind = "text"

\* --------------------------------------------------------------------------
\* Properties of compressImage, checked under SpecCompress
\* --------------------------------------------------------------------------

\* |x - y|
Distance(x, y) == IF x >= y THEN x - y ELSE y - x

\* C15: for every input image size the re-encoded size has width <= 1200 and
\* height <= 1600, is never larger than the input in either dimension, and
\* keeps the input's aspect ratio (to the pixel the truncation costs).
C15_WithinCapsNoUpscaleSameRatio ==
    called =>
        /\ output.width <= 1200
        /\ output.height <= 1600
        /\ output.width <= input.width
        /\ output.height <= input.height
        /\ Distance(output.width * input.height, output.height * input.width)
              <= (IF input.width > input.height THEN input.width ELSE input.height)

\* --------------------------------------------------------------------------
\* Properties of the App's inference calls, checked under Spec
\* --------------------------------------------------------------------------

\* C16: the application never has two inference calls in flight at the same
\* time: no run of analyzeDocumentsMetadata is in progress while a call of
\* generateMedicalReport is.
C16_OneInferenceCallAtATime == ~(up.pc = "analyzing" /\ rp.pc = "generating")

\* --------------------------------------------------------------------------
\* Properties of the pace and the progress of a run, checked under SpecAnalyze
\* --------------------------------------------------------------------------

\* The log up to now ends with the end of batch b - 1 followed by the 4.5 s
\* pause of batch b.
PausedAfterPrevious(b) ==
    /\ Len(aLog) >= 2
    /\ aLog[Len(aLog)] = [ev |-> "sleep", ms |-> 4500, batch |-> b, how |-> ""]
    /\ aLog[Len(aLog) - 1].ev = "end" /\ aLog[Len(aLog) - 1].batch = b - 1

\* C17: within one run the inference request of batch i+1 is issued only
\* after batch i has finished (success or placeholder) and after the fixed
\* 4.5 s pause; no pause precedes the first batch.
C17_PauseBetweenBatches ==
    /\ [][rCalls' > rCalls
            => /\ aPc = "calling"
               /\ i > 0 => PausedAfterPrevious(i)
               /\ i = 0 => aLog = <<>>]_vars
    /\ [](\A k \in 1..Len(aLog) : aLog[k].ev = "sleep" => aLog[k].batch > 0)

\* The request of the second batch is pending, after the first batch ended
\* and the pause was taken.
C17_Witness ==
    /\ aPc = "calling" /\ i = 1 /\ rCalls = 1
    /\ PausedAfterPrevious(1)

\* The batches that have ended so far.
BatchesEnded == Cardinality({k \in 1..Len(aLog) : aLog[k].ev = "end"})

\* C18: the progress callback is invoked once after each batch, in order,
\* with (number of files processed so far, N): the first argument grows by
\* the batch size at each call and equals N at the last call, also for
\* batches that failed.
C18_ProgressAfterEachBatch ==
    /\ Len(progress) = BatchesEnded
    /\ \A k \in 1..Len(progress) : progress[k] = <<k * 1, Len(files)>>
    /\ (aPc = "done" /\ Len(files) > 0) => progress[Len(progress)][1] = Len(files)

\* A run over two files has returned; its first batch failed.
C18_Witness ==
    /\ aPc = "done" /\ Len(files) = 2
    /\ \E k \in 1..Len(aLog) :
          aLog[k].ev = "end" /\ aLog[k].batch = 0 /\ aLog[k].how # "ok"
    /\ progress = <<<<1, 2>>, <<2, 2>>>>

\* --------------------------------------------------------------------------
\* Properties of the storage service, checked under SpecStore
\* --------------------------------------------------------------------------

\* C19: after saveProfile(x) completes, getAllProfiles returns exactly one
\* profile with id x.id and it equals x in every field; a saveProfile with an
\* id already stored replaces the stored value entirely.
C19_SaveProfileRoundTrip ==
    lastTx.fn = "saveProfile"
        => {x \in getAllProfiles(sProfiles) : x.id = lastTx.profile.id} = {lastTx.profile}

\* saveProfile has replaced a stored profile of the same id and another name.
C19_Witness ==
    /\ lastTx.fn = "saveProfile"
    /\ lastTx.old # NoProfile /\ lastTx.old.name # lastTx.profile.name
    /\ lastTx.profile \in sProfiles

\* C20: in every reachable state the reports collection holds at most one
\* report per profileId, and after saveReportToStorage(p, r) completes
\* loadReportFromStorage(p) returns r's fields, whatever report was stored for
\* p before.
C20_OneReportPerProfile ==
    /\ \A pid \in ProfileIds : Cardinality({x \in sReports : x.profileId = pid}) <= 1
    /\ lastTx.fn = "saveReport"
          => loadReportFromStorage(sReports, lastTx.profileId) = lastTx.report

\* saveReportToStorage has overwritten another report of the same patient.
C20_Witness ==
    /\ lastTx.fn = "saveReport"
    /\ lastTx.oldReport # NoReport /\ lastTx.oldReport # lastTx.report
    /\ StoredReport(lastTx.profileId, lastTx.report) \in sReports

\* --------------------------------------------------------------------------
\* The budget of withRetry, checked under SpecRetry
\* --------------------------------------------------------------------------

\* C28: one execution of withRetry invokes the work at most maxRetries times
\* and sleeps at most maxRetries - 1 times; a success on any attempt is
\* returned at once with no further invocation. Extraction uses a budget of 6
\* per batch and report synthesis the smaller budget of 3.
C28_BoundedInvocationsAndSleeps ==
    /\ [](rCalls <= rMax)
    /\ [](rMax >= 1 => Len(rDelays) <= rMax - 1)
    /\ [][(rCalls' = rCalls + 1 /\ rPc' # "caught")
            => (rPc' = "returned" /\ rOut'.kind = "value" /\ rDelays' = rDelays)]_vars
    /\ [][rPc = "returned" => rCalls' <= rCalls]_vars
    /\ [](EXTRACT_BUDGET = 6 /\ REPORT_BUDGET = 3)

\* A budget of 6 was used up: six invocations, five sleeps.
C28_Witness ==
    /\ rPc = "threw" /\ rMax = 6
    /\ rCalls = 6 /\ Len(rDelays) = 5

\* --------------------------------------------------------------------------
\* The records of a run, checked under SpecAnalyze
\* --------------------------------------------------------------------------

\* C29: every record that analysis adds has an id different from the id of
\* every other record of the same run.
C29_FreshIdsWithinRun ==
    \A a, b \in 1..Len(allResults) : a # b => allResults[a].id # allResults[b].id

\* The fields of a record, without its id.
FieldsOf(rec) == <<rec.type, rec.summary, rec.date, rec.isDuplicate>>

\* The call of the current batch has returned resp and the batch ends in this
\* step.
BatchEndsWith(resp) ==
    /\ aPc = "calling" /\ rPc = "returned" /\ rOut.value = resp
    /\ aPc' = "loop"

\* C30: for each element of a successful structured response the record takes
\* the element's type, summary, date and isDuplicate; an absent type becomes
\* OTHER, an absent summary the generic summary, an absent date null and an
\* absent isDuplicate false.
C30_RecordTakesFieldsOrDefaults ==
    /\ [][BatchEndsWith("[full]")
            => /\ Len(allResults') = Len(allResults) + 1
               /\ FieldsOf(allResults'[Len(allResults')])
                     = <<"LAB", "CBC normal", "2023-01-05", FALSE>>]_vars
    /\ [][BatchEndsWith("[absent]")
            => /\ Len(allResults') = Len(allResults) + 1
               /\ FieldsOf(allResults'[Len(allResults')])
                     = <<"OTHER", "Record processed", "null", FALSE>>]_vars
    /\ [][BatchEndsWith("[full, dup imaging]")
            => /\ Len(allResults') = Len(allResults) + 2
               /\ FieldsOf(allResults'[Len(allResults') - 1])
                     = <<"LAB", "CBC normal", "2023-01-05", FALSE>>
               /\ FieldsOf(allResults'[Len(allResults')])
                     = <<"IMAGING", "Chest X-ray", "2022-11-01", TRUE>>]_vars

\* A batch whose response element had no field has ended: its record carries
\* the defaults.
C30_Witness ==
    /\ aPc = "loop" /\ Len(allResults) = 1
    /\ aLog[Len(aLog)].ev = "end" /\ aLog[Len(aLog)].how = "ok"
    /\ FieldsOf(allResults[1]) = <<"OTHER", "Record processed", "null", FALSE>>

\* --------------------------------------------------------------------------
\* The report the App receives, checked under Spec
\* --------------------------------------------------------------------------

\* C27: every ReportData that generateMedicalReport returns has all three
\* required fields history, summary and prognosis, for every response the
\* inference call can resolve with.
C27_ReturnedReportHasRequiredFields ==
    [][\A out \in ReportCallOutcomes :
         (ReportSettled(out) /\ ~generateMedicalReport(out).rejected)
            => /\ generateMedicalReport(out).value.history # ""
               /\ generateMedicalReport(out).value.summary # ""
               /\ generateMedicalReport(out).value.prognosis # ""]_vars

\* --------------------------------------------------------------------------
\* Properties of the storage service, checked under SpecStoreCalls
\* --------------------------------------------------------------------------

\* C21: a store write whose transaction does not commit, because a request
\* failed or because the transaction aborted, rejects the promise the write
\* returned: the promise does not resolve and does not stay pending.
C21_UncommittedWriteRejects ==
    lastTx.fn = "not committed" => lastTx.promise = "rejected"

\* C22: removeDocumentFromStorage on an absent key, clearCurrentPatientData
\* and deleteProfileCompletely on a profile with nothing stored (a second call
\* right after the first included) complete and leave the store as it was.
C22_DeletesAreIdempotent ==
    /\ [][(lastTx'.fn = "removeDocument" /\ ~lastTx'.had) => UNCHANGED storeVars]_vars
    /\ [][(lastTx'.fn = "clear" /\ ~lastTx'.hadDocs /\ lastTx'.oldReport = NoReport)
            => UNCHANGED storeVars]_vars
    /\ [][(lastTx'.fn = "delete" /\ ~lastTx'.hadDocs /\ lastTx'.oldReport = NoReport
                /\ lastTx'.old = NoProfile)
            => UNCHANGED storeVars]_vars
    /\ [][(lastTx.fn \in {"removeDocument", "clear", "delete"} /\ lastTx'.fn = lastTx.fn
                /\ lastTx'.profileId = lastTx.profileId
                /\ (lastTx.fn = "removeDocument" => lastTx'.id = lastTx.id))
            => UNCHANGED storeVars]_vars

\* removeDocumentFromStorage(p1, d2) was called with no such record stored,
\* while p2 holds a document of the same id and p1 holds another document.
C22_Witness ==
    /\ lastTx.fn = "removeDocument" /\ lastTx.profileId = "p1" /\ lastTx.id = "d2"
    /\ ~lastTx.had
    /\ \E x \in sDocs : x.profileId = "p2" /\ x.id = "d2"
    /\ \E x \in sDocs : x.profileId = "p1" /\ x.id = "d1"

\* C23: reading what is not stored is not an error: loadReportFromStorage
\* resolves with null when the profile has no report, loadDocumentsFromStorage
\* with the empty list when it has no documents, getAllProfiles with the empty
\* list when no profile is stored.
C23_AbsentReadsAreEmpty ==
    /\ (lastTx.fn = "loadReport" /\ (\A x \in sReports : x.profileId # lastTx.profileId))
          => lastTx.result = NoReport
    /\ (lastTx.fn = "loadDocuments" /\ (\A x \in sDocs : x.profileId # lastTx.profileId))
          => lastTx.result = <<>>
    /\ (lastTx.fn = "getAllProfiles" /\ sProfiles = {}) => lastTx.result = {}

\* loadReportFromStorage(p1) resolved with null while p2 has a report stored.
C23_Witness ==
    /\ lastTx.fn = "loadReport" /\ lastTx.profileId = "p1" /\ lastTx.result = NoReport
    /\ \E x \in sReports : x.profileId = "p2"

\* The stored records a list of loaded documents stands for.
RecordsOf(pid, docs) == {StoredDoc(pid, docs[k]) : k \in 1..Len(docs)}

\* C24: loadDocumentsFromStorage(p) resolves with exactly the stored documents
\* whose profileId is p, each once; documents saved under one profile leave
\* the records of every other profile, same ids included, as they were.
C24_LoadIsPerProfile ==
    /\ [](lastTx.fn = "loadDocuments"
            => /\ RecordsOf(lastTx.profileId, lastTx.result)
                    = {x \in sDocs : x.profileId = lastTx.profileId}
               /\ Len(lastTx.result)
                    = Cardinality({x \in sDocs : x.profileId = lastTx.profileId}))
    /\ [][lastTx'.fn = "saveDocuments"
            => {x \in sDocs' : x.profileId # lastTx'.profileId}
                  = {x \in sDocs : x.profileId # lastTx'.profileId}]_vars

\* p1 and p2 each hold a document d2, with different content, and the load of
\* p1 returned p1's two documents only.
C24_Witness ==
    /\ lastTx.fn = "loadDocuments" /\ lastTx.profileId = "p1"
    /\ Len(lastTx.result) = 2 /\ lastTx.result[2].id = "d2" /\ lastTx.result[2].file = "f1"
    /\ StoredDoc("p2", MemDoc("d2", "", "")) \in sDocs

\* C25: no stored document record carries a previewUrl, and every document a
\* load returns has the previewUrl made by that load: a fresh object URL when
\* the record has its file, the empty string when it has none.
C25_PreviewUrlIsDerived ==
    /\ \A x \in sDocs : "previewUrl" \notin DOMAIN x
    /\ lastTx.fn = "loadDocuments"
          => \A k \in 1..Len(lastTx.result) :
                lastTx.result[k].previewUrl
                    = (IF lastTx.result[k].file # "" THEN "blob:load" ELSE "")

\* A load returned a document with its file and one without.
C25_Witness ==
    /\ lastTx.fn = "loadDocuments" /\ Len(lastTx.result) = 2
    /\ lastTx.result[1].previewUrl = "blob:load"
    /\ lastTx.result[2].previewUrl = "" /\ lastTx.result[2].file = ""

\* --------------------------------------------------------------------------
\* Properties of openDB, checked under SpecOpen
\* --------------------------------------------------------------------------

\* C26: opening the store at the current version from any earlier state, in
\* which only some of profiles, documents, reports exist, succeeds with the
\* three collections present at the current version, and every collection
\* that existed holds what it held.
C26_UpgradeKeepsContent ==
    (called /\ input.version < DB_VERSION)
       => /\ ~output.rejected
          /\ output.db.version = DB_VERSION
          /\ DOMAIN output.db.stores = Collections
          /\ \A c \in DOMAIN input.stores : output.db.stores[c] = input.stores[c]
          /\ \A c \in Collections \ DOMAIN input.stores : output.db.stores[c] = {}

\* A version-2 database holding only profiles, with two records, was opened:
\* documents and reports were created and the two profiles are still there.
C26_Witness ==
    /\ called /\ input.version = 2 /\ DOMAIN input.stores = {STORE_PROFILES}
    /\ input.stores[STORE_PROFILES] = {"r1", "r2"}
    /\ ~output.rejected
    /\ DOMAIN output.db.stores = Collections
    /\ output.db.stores[STORE_PROFILES] = {"r1", "r2"}

\* --------------------------------------------------------------------------
\* Properties of the App's handlers in flight, checked under Spec
\* --------------------------------------------------------------------------

\* The patient of the upload in flight has no profile in the store: the
\* patient has been deleted.
UploadOutlivedPatient == up.pc = "analyzing" /\ (\A x \in sProfiles : x.id # up.profile.id)

\* The same, for the synthesis in flight.
SynthesisOutlivedPatient == rp.pc = "generating" /\ (\A x \in sProfiles : x.id # rp.profile.id)

\* C31: if a patient is deleted while an analysis or a synthesis for that
\* patient is in flight, then when the operation in flight has finished the
\* store holds no document and no report of that patient.
C31_NothingSavedAfterDelete ==
    /\ [][\A meta \in MetaLists(MaxFiles) :
            (UploadOutlivedPatient /\ AnalysisResolved(meta))
               => \A x \in sDocs' : x.profileId # up.profile.id]_vars
    /\ [][\A out \in ReportCallOutcomes :
            (SynthesisOutlivedPatient /\ ReportSettled(out))
               => \A x \in sReports' : x.profileId # rp.profile.id]_vars

\* --------------------------------------------------------------------------
\* Properties of the App used by two patients, checked under SpecPatients
\* --------------------------------------------------------------------------

\* C32: a document of profile A is never written under the id of another
\* profile B: every stored document of B comes from a file picked while B was
\* the active profile.
C32_DocumentsStayWithTheirProfile ==
    \A x \in sDocs : x.file = UploadOf(x.profileId)

\* C33: once handleRemoveDocument(id) has completed for the active profile the
\* document (profileId, id) is absent from the store and stays absent, also
\* when an analysis started before the removal completes.
C33_RemovedStaysRemoved ==
    lastTx.fn = "removeDocument"
       => ~(\E x \in sDocs : x.profileId = lastTx.profileId /\ x.id = lastTx.id)

\* --------------------------------------------------------------------------
\* Properties of the App's screen state, checked under Spec
\* --------------------------------------------------------------------------

\* The steps that work on a patient.
PatientSteps == {"UPLOAD", "ANALYZING_METADATA", "REVIEW", "GENERATING_REPORT", "RESULT"}

\* C34: in every reachable state of the App, a step of UPLOAD,
\* ANALYZING_METADATA, REVIEW, GENERATING_REPORT or RESULT has an active
\* profile, and with no active profile the in-memory documents are empty and
\* the in-memory report is null.
C34_PatientStepsHaveProfile ==
    /\ step \in PatientSteps => profile # NoProfile
    /\ profile = NoProfile => (documents = <<>> /\ report = NoReport)

\* --------------------------------------------------------------------------
\* Frame of the storage service's writes, checked under SpecStoreCalls
\* --------------------------------------------------------------------------

\* What the store <<profiles, documents, reports>> holds of profiles other than pid.
OthersOf(pid, st) ==
    <<{x \in st[1] : x.id # pid}, {x \in st[2] : x.profileId # pid},
      {x \in st[3] : x.profileId # pid}>>

\* C35: clearCurrentPatientData(p), deleteProfileCompletely(p),
\* removeDocumentFromStorage(p, id), saveDocumentsToStorage(p, docs) and
\* saveReportToStorage(p, r) leave every document, report and profile of every
\* other profile as it was.
C35_WritesTouchOneProfile ==
    [][lastTx'.fn \in {"clear", "delete", "removeDocument", "saveDocuments", "saveReport"}
         => OthersOf(lastTx'.profileId, <<sProfiles', sDocs', sReports'>>)
               = OthersOf(lastTx'.profileId, <<sProfiles, sDocs, sReports>>)]_vars

\* clearCurrentPatientData(p1) removed p1's documents and report while p2 has a
\* profile, a document and a report.
C35_Witness ==
    /\ lastTx.fn = "clear" /\ lastTx.profileId = "p1"
    /\ lastTx.hadDocs /\ lastTx.oldReport # NoReport
    /\ \E x \in sProfiles : x.id = "p2"
    /\ \E x \in sDocs : x.profileId = "p2"
    /\ \E x \in sReports : x.profileId = "p2"

\* --------------------------------------------------------------------------
\* Properties of the handlers' failure paths, checked under SpecFaults
\* --------------------------------------------------------------------------

\* The upload failed in this step: the records could not be attached to the
\* files, or the store write did not commit.
UploadFails ==
    \/ \E meta \in MetaLists(MaxFiles) : Len(meta) > Len(up.files) /\ AnalysisResolved(meta)
    \/ \E meta \in MetaLists(MaxFiles), how \in TxEndings, txError \in TxErrors :
          UploadSaveFails(meta, how, txError)

\* The synthesis failed in this step: generateMedicalReport rejected, or the
\* store write did not commit.
SynthesisFails ==
    \/ \E out \in ReportCallOutcomes : generateMedicalReport(out).rejected /\ ReportSettled(out)
    \/ \E out \in ReportCallOutcomes, how \in TxEndings : ReportSaveFails(out, how)

\* C36: when an upload fails the in-memory documents are unchanged, an error
\* is shown and the step returns to UPLOAD; when report generation or its
\* store write fails the in-memory report is unchanged, an error is shown and
\* the step returns to REVIEW.
C36_FailuresAreShown ==
    /\ [][UploadFails => (documents' = documents /\ error' # "" /\ step' = "UPLOAD")]_vars
    /\ [][SynthesisFails => (report' = report /\ error' # "" /\ step' = "REVIEW")]_vars

\* --------------------------------------------------------------------------
\* Properties of loading a patient, checked under Spec
\* --------------------------------------------------------------------------

\* The step the store calls for when patient pid is loaded.
StepFor(pid) ==
    IF \E x \in sReports : x.profileId = pid THEN "RESULT"
    ELSE IF \E x \in sDocs : x.profileId = pid THEN "REVIEW"
    ELSE "UPLOAD"

====
